---- MODULE Spec2Model ----
(***************************************************************************)
(* Receiver Web Server: the raw http.server variant (src/app.py) and the   *)
(* Flask variant (src/main.py).  One behaviour runs one of the two         *)
(* programs (variable `variant`).                                          *)
(*                                                                         *)
(* Strings are sequences of atoms: "hello" is <<"hello">>, a path          *)
(* "/ping" is <<"/", "ping">>, concatenation is \o.  Python's None is the  *)
(* one-atom string NoneStr, which no real string contains.                 *)
(***************************************************************************)
EXTENDS Integers, Sequences, FiniteSets, TLC

\* ---------------------------------------------------------------- bounds
MaxRequests == 3      \* requests a behaviour receives
MaxClock == 1         \* seconds the wall clock advances

\* ------------------------------------------------------- Python values
NoneStr == <<"<None>">>
Truthy(s) == s # NoneStr /\ s # <<>>

BadByte == "0xFF"     \* a byte that is not valid UTF-8
CanDecode(bytes) == \A i \in DOMAIN bytes : bytes[i] # BadByte

RECURSIVE lstrip(_)
lstrip(s) == IF s # <<>> /\ Head(s) = "/" THEN lstrip(Tail(s)) ELSE s

RECURSIVE rstrip(_)
rstrip(s) ==
    IF s # <<>> /\ s[Len(s)] = "/" THEN rstrip(SubSeq(s, 1, Len(s) - 1)) ELSE s

strip(s) == rstrip(lstrip(s))

\* str.replace(old, new) on atoms; new = "" removes the atom
RECURSIVE replace(_, _, _)
replace(s, old, new) ==
    IF s = <<>> THEN <<>>
    ELSE (IF Head(s) = old THEN (IF new = "" THEN <<>> ELSE <<new>>) ELSE <<Head(s)>>)
         \o replace(Tail(s), old, new)

RECURSIVE Concat(_)
Concat(ss) == IF ss = <<>> THEN <<>> ELSE Head(ss) \o Concat(Tail(ss))

\* ------------------------------------------------------------- requests
ROOT == <<"/">>
LOGS == <<"/", "logs">>
FAVICON == <<"/", "favicon.ico">>
PING == <<"/", "ping">>
QPATH == <<"/", "q">>

Field(k, v) == [k |-> k, v |-> v]
Q0 == <<>>
QFoo == <<Field("foo", <<"bar">>)>>
QRelay == <<Field("q", <<"hello">>), Field("p", <<"example.com">>)>>
QList == <<Field("q", <<"a">>), Field("p", <<"x">>), Field("p", <<"y">>)>>
QBlank == <<Field("q", <<"hello">>), Field("p", <<>>)>>
QOnlyQ == <<Field("q", <<"hello">>)>>
QHttps == <<Field("q", <<"hello">>),
            Field("p", <<"https://", "example.com", "/", "api", "?", "x=1">>)>>
QBoth == <<Field("req", <<"second">>), Field("q", <<"first">>),
           Field("rep", <<"b.example">>), Field("p", <<"http://", "a.example", "/", "in">>)>>
QMixed == <<Field("req", <<"second">>), Field("p", <<"a.example">>)>>
QAlt == <<Field("req", <<"second">>), Field("rep", <<"b.example", "?", "y=2">>)>>

Req(m, p, q, b) == [method |-> m, path |-> p, query |-> q, body |-> b]

\* what clients send to src/app.py
AppRequests ==
    {Req("GET", ROOT, q, <<>>) : q \in {Q0, QFoo, QRelay, QList, QBlank}}
    \cup {Req("GET", p, Q0, <<>>) : p \in {LOGS, FAVICON, PING}}
    \cup {Req("POST", ROOT, q, <<"hello">>) : q \in {Q0, QFoo}}
    \cup {Req("POST", p, Q0, <<BadByte>>) : p \in {ROOT, PING}}
    \cup {Req("POST", PING, Q0, <<"hello">>)}
    \cup {Req("POST", FAVICON, Q0, <<>>)}

\* relay traffic to src/app.py
RelayRequests ==
    {Req("GET", ROOT, q, <<>>) : q \in {QRelay, QHttps, QBoth, QMixed, QAlt}}
    \cup {Req("POST", ROOT, QRelay, <<"hello">>)}

\* traffic to src/app.py around a shutdown
ShutdownRequests ==
    {Req("GET", ROOT, QRelay, <<>>), Req("GET", PING, Q0, <<>>),
     Req("GET", LOGS, Q0, <<>>), Req("POST", PING, Q0, <<"hello">>)}

\* what clients send to src/main.py
\* traffic for the comparison of a run with its verbose twin, and for faults
CoreAppRequests ==
    {Req("GET", ROOT, q, <<>>) : q \in {QFoo, QRelay, QList}}
    \cup {Req("GET", p, Q0, <<>>) : p \in {LOGS, PING}}
    \cup {Req("POST", ROOT, Q0, <<BadByte>>), Req("POST", PING, Q0, <<"hello">>)}

CoreMainRequests ==
    {Req("GET", ROOT, QFoo, <<>>), Req("GET", QPATH, QOnlyQ, <<>>)}
    \cup {Req("GET", p, Q0, <<>>) : p \in {LOGS, PING}}
    \cup {Req("POST", PING, Q0, b) : b \in {<<"hello">>, <<BadByte>>}}

MainRequests ==
    {Req("GET", ROOT, q, <<>>) : q \in {Q0, QFoo}}
    \cup {Req("GET", QPATH, q, <<>>) : q \in {Q0, QOnlyQ}}
    \cup {Req("GET", p, Q0, <<>>) : p \in {LOGS, FAVICON, PING}}
    \cup {Req("POST", ROOT, Q0, <<"hello">>)}
    \cup {Req("POST", PING, Q0, b) : b \in {<<"hello">>, <<BadByte>>}}

\* the target of a relay answers, or the connection fails
RelayOutcomes ==
    {[ok |-> TRUE, text |-> <<"pong">>],
     [ok |-> FALSE, text |-> <<"Connection refused">>]}

\* ------------------------------------------------------------ responses
Response(status, ctype, body) == [status |-> status, ctype |-> ctype, body |-> body]
Pending == Response(-1, "", <<>>)       \* the handler has not answered yet
NoResponse == Response(0, "", <<>>)     \* the handler raised: connection closed

VARIABLES
    variant,    \* "app": src/app.py runs; "main": src/main.py runs
    verbose,    \* the -v flag
    clock,      \* the wall clock, in seconds
    logs,       \* the web-visible log
    cli,        \* the process-level log sink
    hist,       \* the requests handled so far, with their responses
    relay,      \* the outbound call of send_request_to_target in progress
    silent,     \* the relay target has accepted the connection and never answers
    listener,   \* "Listening", "Draining" or "Stopped"
    exit_status, \* the status the process exited with, Running until it exits
    traffic,    \* what the clients of this run send
    twin        \* the same run under the other verbose setting: its log, its responses

vars == <<variant, verbose, clock, logs, cli, hist, relay, silent, listener,
          exit_status, traffic, twin>>

Idle == [busy |-> FALSE, url |-> <<>>, payload |-> <<>>,
         conn |-> "", host |-> <<>>, path |-> <<>>]

Running == -1

NoTwin == [logs |-> <<>>, resps |-> <<>>]


\* the state after construction, for the program and the traffic given
InitOf(variants, kind) ==
    /\ variant \in variants
    /\ verbose \in BOOLEAN
    /\ clock = 0
    /\ logs = <<>>
    /\ cli = <<>>
    /\ hist = <<>>
    /\ relay = Idle
    /\ silent = FALSE
    /\ listener = "Listening"
    /\ exit_status = Running
    /\ traffic = kind
    /\ twin = NoTwin

Init == InitOf({"app", "main"}, "general")

\* datetime.now().strftime(...): the clock, to the second
strftime(now) == <<ToString(now)>>

NL == "<LF>"          \* the line feed character

\* ------------------------------------------------- query string and JSON
\* urllib.parse.parse_qs: key -> list of values in order of first
\* appearance; fields with a blank value are dropped
AddValue(d, k, v) ==
    IF \E i \in DOMAIN d : d[i].k = k
    THEN [i \in DOMAIN d |->
            IF d[i].k = k THEN [k |-> k, vals |-> Append(d[i].vals, v)] ELSE d[i]]
    ELSE Append(d, [k |-> k, vals |-> <<v>>])

RECURSIVE parse_qs(_)
parse_qs(raw) ==
    IF raw = <<>> THEN <<>>
    ELSE LET init == parse_qs(SubSeq(raw, 1, Len(raw) - 1))
             last == raw[Len(raw)]
         IN  IF last.v = <<>> THEN init ELSE AddValue(init, last.k, last.v)

\* a JSON value of the query mapping: one string, or a list of strings
StrVal(s) == [isList |-> FALSE, vals |-> <<s>>]
ListVal(ss) == [isList |-> TRUE, vals |-> ss]
ValTruthy(v) == IF v.isList THEN v.vals # <<>> ELSE v.vals[1] # <<>>

\* a dict (or None): items in insertion order
NoneJson == [none |-> TRUE, items |-> <<>>]
JsonTruthy(j) == ~j.none /\ j.items # <<>>
Has(j, k) == \E i \in DOMAIN j.items : j.items[i].k = k
\* a lookup that prefers the fallback over the key's own value
Get_fallback_first(j, k, default) ==
    IF ValTruthy(default) THEN default
    ELSE IF Has(j, k)
    THEN j.items[CHOOSE i \in DOMAIN j.items : j.items[i].k = k].val
    ELSE default

Get(j, k, default) ==
    IF Has(j, k)
    THEN j.items[CHOOSE i \in DOMAIN j.items : j.items[i].k = k].val
    ELSE default

\* {k: (v[0] if len(v) == 1 else v) for k, v in query_params.items()} if query_params else None
query_json_of(query_params) ==
    IF query_params # <<>>
    THEN [none |-> FALSE,
          items |-> [i \in DOMAIN query_params |->
                       [k |-> query_params[i].k,
                        val |-> IF Len(query_params[i].vals) = 1
                                THEN StrVal(query_params[i].vals[1])
                                ELSE ListVal(query_params[i].vals)]]]
    ELSE NoneJson

Quote(s) == <<"\"">> \o s \o <<"\"">>

RECURSIVE JoinQuoted(_)
JoinQuoted(ss) ==
    IF ss = <<>> THEN <<>>
    ELSE IF Len(ss) = 1 THEN Quote(ss[1])
    ELSE Quote(Head(ss)) \o <<",">> \o JoinQuoted(Tail(ss))

JsonValue(v) ==
    IF v.isList THEN <<"[">> \o JoinQuoted(v.vals) \o <<"]">> ELSE Quote(v.vals[1])

RECURSIVE JsonItems(_)
JsonItems(items) ==
    IF items = <<>> THEN <<>>
    ELSE LET one == Quote(<<Head(items).k>>) \o <<":">> \o JsonValue(Head(items).val)
         IN  IF Len(items) = 1 THEN one ELSE one \o <<",">> \o JsonItems(Tail(items))

\* json.dumps(obj, separators=(",", ":")) of a dict
json_dumps(j) == <<"{">> \o JsonItems(j.items) \o <<"}">>

\* ================================================================ src/app.py
ClientIp == "127.0.0.1"
ServerPort == "80"

\* f"{self.client_address[0]}:{self.server.server_port}" if verbose else ""
app_client_address(v) == IF v THEN <<ClientIp, ":", ServerPort>> ELSE <<>>

\* a verbose label that names the client origin in place of the route
app_route_name_origin_only(route, client_address, v) ==
    IF ~v THEN (IF route = ROOT THEN <<>> ELSE lstrip(route))
    ELSE client_address \o <<"/">>

app_route_name(route, client_address, v) ==
    IF route = ROOT
    THEN (IF ~v THEN <<>> ELSE client_address \o <<"/">>)
    ELSE (IF ~v THEN lstrip(route) ELSE client_address \o <<"/">> \o lstrip(route))

app_log_entry(route, method, query_value, body, client_address, v, now) ==
    <<"[+]", " ">> \o strftime(now) \o <<" (", method, ") ">>
    \o app_route_name(route, client_address, v)
    \o (IF Truthy(query_value) THEN <<" - ">> \o query_value ELSE <<>>)
    \o (IF Truthy(body) THEN <<NL>> \o body ELSE <<>>)

app_log_entry_web(log_entry) == replace(replace(log_entry, "[+]", ""), NL, "<br>")

\* a log store that inserts at the front
app_logs_after_prepend(old, route, log_entry, log_only_in_cli) ==
    IF ~log_only_in_cli /\ route \notin {FAVICON, LOGS}
    THEN <<app_log_entry_web(log_entry)>> \o old
    ELSE old

\* the web-visible log after log_request
app_logs_after(old, route, log_entry, log_only_in_cli) ==
    IF ~log_only_in_cli /\ route \notin {FAVICON, LOGS}
    THEN Append(old, app_log_entry_web(log_entry))
    ELSE old

\* the process-level log sink after logging.info(log_entry)
logging_info(sink, log_entry) == Append(sink, log_entry)

startswith(s, prefix) == s # <<>> /\ Head(s) = prefix

\* send_request_to_target, up to the outbound call
normalize_target(target) ==
    IF ~startswith(target, "http://") /\ ~startswith(target, "https://")
    THEN <<"http://">> \o target
    ELSE target

\* urlparse(target): the atoms after the scheme, up to and after the first "?"
url_scheme(url) == IF startswith(url, "https://") THEN "https" ELSE "http"
url_rest(url) == Tail(url)
FirstIndex(s, atoms) ==
    IF \E i \in DOMAIN s : s[i] \in atoms
    THEN CHOOSE i \in DOMAIN s : s[i] \in atoms /\ \A k \in 1..(i - 1) : s[k] \notin atoms
    ELSE Len(s) + 1
url_netloc(url) == SubSeq(url_rest(url), 1, FirstIndex(url_rest(url), {"/", "?"}) - 1)
url_path(url) ==
    SubSeq(url_rest(url), FirstIndex(url_rest(url), {"/", "?"}),
           FirstIndex(url_rest(url), {"?"}) - 1)
url_query(url) ==
    SubSeq(url_rest(url), FirstIndex(url_rest(url), {"?"}) + 1, Len(url_rest(url)))

\* HTTPSConnection if target_parsed.scheme == "https" else HTTPConnection
connection_class(url) == IF url_scheme(url) = "https" THEN "HTTPS" ELSE "HTTP"

\* an outbound path that leaves the query component out
outbound_path_no_query(url) ==
    IF url_path(url) # <<>> THEN url_path(url) ELSE <<"/">>

\* path = target_parsed.path or "/"; path += "?" + query if query else ""
outbound_path(url) ==
    (IF url_path(url) # <<>> THEN url_path(url) ELSE <<"/">>)
    \o (IF url_query(url) # <<>> THEN <<"?">> \o url_query(url) ELSE <<>>)

relay_payload(query) == <<"{">> \o Quote(<<"query">>) \o <<":">> \o JsonValue(query) \o <<"}">>

\* send_request_to_target at conn.request: the one outbound POST
outbound_call(query, target) ==
    LET url == normalize_target(target)
    IN  [busy |-> TRUE, url |-> url, payload |-> relay_payload(query),
         conn |-> connection_class(url), host |-> url_netloc(url),
         path |-> outbound_path(url)]

\* send_request_to_target, from the outcome of the outbound call
relay_result(url, outcome) ==
    IF outcome.ok THEN outcome.text
    ELSE <<"Failed to request ">> \o url \o <<": ">> \o outcome.text

generate_logs_html(entries) ==
    <<"<html><body><div id=log-container>">>
    \o Concat([i \in DOMAIN entries |->
                 <<"<div class=log-entry>">> \o entries[i] \o <<"</div>">>])
    \o <<"</div></body></html>">>

\* a handler that writes its log entry only once the reply is ready
Result_logged_on_reply(l, c, resp, rl, entry) ==
    [logs |-> IF rl.busy /\ l # <<>> THEN SubSeq(l, 1, Len(l) - 1) ELSE l,
     cli |-> c, resp |-> resp, relay |-> rl, entry |-> entry]

\* what a handler leaves behind: the log store, the CLI sink, the response
\* (Pending while the relay's outbound call is in progress), the outbound
\* call, and the line log_request built (NoneStr when it was not called)
Result(l, c, resp, rl, entry) ==
    [logs |-> l, cli |-> c, resp |-> resp, relay |-> rl, entry |-> entry]

\* handle_home under verbosity v, log store l and sink c
handle_home_in(v, l, c, r, client_address, body, now) ==
    LET isRoot == r.path = ROOT
        query_params == parse_qs(r.query)
        query_json == IF isRoot THEN query_json_of(query_params) ELSE NoneJson
        query_value ==
            IF isRoot
            THEN (IF JsonTruthy(query_json) THEN json_dumps(query_json) ELSE <<>>)
            ELSE NoneStr
        entry == app_log_entry(r.path, r.method,
                               IF Truthy(query_value) THEN query_value ELSE NoneStr,
                               body, client_address, v, now)
        logs1 == app_logs_after(l, r.path, entry, FALSE)
        cli1 == logging_info(c, entry)
        aliases == /\ JsonTruthy(query_json)
                   /\ (Has(query_json, "q") \/ Has(query_json, "req"))
                   /\ (Has(query_json, "p") \/ Has(query_json, "rep"))
        query == Get(query_json, "q", Get(query_json, "req", StrVal(<<>>)))
        target == Get(query_json, "p", Get(query_json, "rep", StrVal(<<>>)))
    IN  IF aliases /\ ValTruthy(target)
        THEN IF target.isList
             THEN \* target.startswith raises AttributeError outside the try
                  Result(logs1, cli1, NoResponse, Idle, entry)
             ELSE Result(logs1, cli1, Pending,
                         outbound_call(query, target.vals[1]), entry)
        ELSE Result(logs1, cli1,
                    Response(200,
                             IF Truthy(query_value) THEN "application/json" ELSE "text/plain",
                             IF Truthy(query_value) THEN query_value ELSE <<>>),
                    Idle, entry)

handle_home(r, client_address, body, now) ==
    handle_home_in(verbose, logs, cli, r, client_address, body, now)

send_logs_in(l) == Response(200, "text/html", generate_logs_html(l))

send_logs == send_logs_in(logs)

do_GET_in(v, l, c, r, now) ==
    LET client_address == app_client_address(v)
    IN  IF r.path = FAVICON
        THEN LET entry == app_log_entry(r.path, r.method, NoneStr, NoneStr,
                                        client_address, v, now)
             IN  Result(app_logs_after(l, r.path, entry, TRUE),
                        logging_info(c, entry),
                        Response(404, "", <<>>), Idle, entry)
        ELSE IF r.path = LOGS
        THEN Result(l, c, send_logs_in(l), Idle, NoneStr)
        ELSE handle_home_in(v, l, c, r, client_address, NoneStr, now)

do_GET(r, now) == do_GET_in(verbose, logs, cli, r, now)

do_POST_in(v, l, c, r, now) ==
    IF ~CanDecode(r.body)
    THEN \* .decode('utf-8') raises UnicodeDecodeError
         Result(l, c, NoResponse, Idle, NoneStr)
    ELSE handle_home_in(v, l, c, r, app_client_address(v), r.body, now)

do_POST(r, now) == do_POST_in(verbose, logs, cli, r, now)

\* one request, as the history keeps it
Handled(r, res) ==
    [req |-> r, ts |-> clock, resp |-> res.resp, entry |-> res.entry,
     webN |-> Len(res.logs) - Len(logs), cliN |-> Len(res.cli) - Len(cli),
     posts |-> IF res.relay.busy THEN 1 ELSE 0]

\* the handler's effects; tw is what the same handler leaves in the twin run
\* a handler whose exception ends serve_forever
Apply_fault_stops(r, res, tw) ==
    /\ logs' = res.logs
    /\ cli' = res.cli
    /\ relay' = res.relay
    /\ hist' = Append(hist, Handled(r, res))
    /\ twin' = IF traffic = "core"
               THEN [logs |-> tw.logs, resps |-> Append(twin.resps, tw.resp)]
               ELSE twin
    /\ listener' = IF res.resp = NoResponse THEN "Stopped" ELSE listener
    /\ UNCHANGED <<variant, verbose, clock, silent, exit_status, traffic>>

Apply(r, res, tw) ==
    /\ logs' = res.logs
    /\ cli' = res.cli
    /\ relay' = res.relay
    /\ hist' = Append(hist, Handled(r, res))
    /\ twin' = IF traffic = "core"
               THEN [logs |-> tw.logs, resps |-> Append(twin.resps, tw.resp)]
               ELSE twin
    /\ UNCHANGED <<variant, verbose, clock, silent, listener, exit_status, traffic>>

AppInbound ==
    CASE traffic = "relay" -> RelayRequests
      [] traffic = "shutdown" -> ShutdownRequests
      [] traffic = "core" -> CoreAppRequests
      [] OTHER -> AppRequests

\* HTTPServer.serve_forever: one thread takes one request at a time
app_accepting ==
    variant = "app" /\ listener = "Listening" /\ ~relay.busy /\ Len(hist) < MaxRequests

app_do_GET ==
    \E r \in AppInbound :
        /\ app_accepting
        /\ r.method = "GET"
        /\ Apply(r, do_GET(r, clock), do_GET_in(~verbose, twin.logs, <<>>, r, clock))

app_do_POST ==
    \E r \in AppInbound :
        /\ app_accepting
        /\ r.method = "POST"
        /\ Apply(r, do_POST(r, clock), do_POST_in(~verbose, twin.logs, <<>>, r, clock))

\* a relay return that also records the relay's result in the log store
app_relay_return_logged ==
    \E outcome \in RelayOutcomes :
        /\ variant = "app"
        /\ relay.busy /\ ~silent
        /\ hist' = [hist EXCEPT ![Len(hist)].resp =
                       Response(200, "text/plain", relay_result(relay.url, outcome))]
        /\ twin' = IF traffic = "core"
                   THEN [twin EXCEPT !.resps[Len(twin.resps)] =
                            Response(200, "text/plain", relay_result(relay.url, outcome))]
                   ELSE twin
        /\ relay' = Idle
        /\ logs' = Append(logs, relay_result(relay.url, outcome))
        /\ UNCHANGED <<variant, verbose, clock, cli, silent, listener,
                       exit_status, traffic>>

\* the outbound call of send_request_to_target returns or raises; no timeout
\* is set on the connection, so a silent target never lets it return
app_relay_return ==
    \E outcome \in RelayOutcomes :
        /\ variant = "app"
        /\ relay.busy /\ ~silent
        /\ hist' = [hist EXCEPT ![Len(hist)].resp =
                       Response(200, "text/plain", relay_result(relay.url, outcome))]
        /\ twin' = IF traffic = "core"
                   THEN [twin EXCEPT !.resps[Len(twin.resps)] =
                            Response(200, "text/plain", relay_result(relay.url, outcome))]
                   ELSE twin
        /\ relay' = Idle
        /\ UNCHANGED <<variant, verbose, clock, logs, cli, silent, listener,
                       exit_status, traffic>>

\* the target accepts the connection and then never answers
target_silent ==
    /\ variant = "app"
    /\ relay.busy /\ ~silent
    /\ silent' = TRUE
    /\ UNCHANGED <<variant, verbose, clock, logs, cli, hist, relay, listener,
                   exit_status, traffic, twin>>

\* SIGINT: shutdown_server calls server.shutdown(), which makes serve_forever
\* leave its loop once the request it is handling is done
shutdown_signal ==
    /\ variant = "app"
    /\ listener = "Listening"
    /\ listener' = "Draining"
    /\ UNCHANGED <<variant, verbose, clock, logs, cli, hist, relay, silent,
                   exit_status, traffic, twin>>

\* a shutdown that closes the listener without waiting for the handler
shutdown_complete_abrupt ==
    /\ variant = "app"
    /\ listener = "Draining"
    /\ listener' = "Stopped"
    /\ exit_status' = 0
    /\ UNCHANGED <<variant, verbose, clock, logs, cli, hist, relay, silent,
                   traffic, twin>>

\* serve_forever has returned: server_thread.join(), server.server_close(),
\* sys.exit(0)
shutdown_complete ==
    /\ variant = "app"
    /\ listener = "Draining"
    /\ ~relay.busy
    /\ listener' = "Stopped"
    /\ exit_status' = 0
    /\ UNCHANGED <<variant, verbose, clock, logs, cli, hist, relay, silent,
                   traffic, twin>>

Tick ==
    /\ clock < MaxClock
    /\ exit_status = Running
    /\ clock' = clock + 1
    /\ UNCHANGED <<variant, verbose, logs, cli, hist, relay, silent, listener,
                   exit_status, traffic, twin>>

\* =============================================================== src/main.py
main_log_entry(route, method, query_value, body, now) ==
    (IF route = QPATH
     THEN <<"[query]", " ", method, " ">> \o strftime(now) \o <<": ">>
          \o (IF query_value # NoneStr THEN query_value ELSE <<>>)
     ELSE (IF route = ROOT THEN <<"[root]">> ELSE <<"[">> \o strip(route) \o <<"]">>)
          \o <<" ", method, " ">> \o strftime(now)
          \o (IF Truthy(query_value) THEN <<": ">> \o query_value ELSE <<>>))
    \o (IF Truthy(body) THEN <<NL>> \o body ELSE <<>>)

main_log_entry_web(log_entry) == replace(log_entry, NL, "<br>")

\* a log store that evicts its oldest entry once it holds two
main_logs_after_rotating(old, log_entry, log_only_in_cli) ==
    IF ~log_only_in_cli
    THEN Append(IF Len(old) >= 2 THEN Tail(old) ELSE old, main_log_entry_web(log_entry))
    ELSE old

main_logs_after(old, log_entry, log_only_in_cli) ==
    IF ~log_only_in_cli THEN Append(old, main_log_entry_web(log_entry)) ELSE old

\* log_request of src/main.py, as the handler's result with its response
main_log_request_in(l, c, route, method, query_value, body, log_only_in_cli, resp, now) ==
    LET entry == main_log_entry(route, method, query_value, body, now)
    IN  Result(main_logs_after(l, entry, log_only_in_cli),
               logging_info(c, entry), resp, Idle, entry)

main_log_request(route, method, query_value, body, log_only_in_cli, resp, now) ==
    main_log_request_in(logs, cli, route, method, query_value, body,
                        log_only_in_cli, resp, now)

\* request.args.get(k, None): the first value of k, blank or not
RECURSIVE args_get(_, _)
args_get(raw, k) ==
    IF raw = <<>> THEN NoneStr
    ELSE IF Head(raw).k = k THEN Head(raw).v
    ELSE args_get(Tail(raw), k)

\* jsonify({"q": query_value})
jsonify_q(query_value) ==
    <<"{">> \o Quote(<<"q">>) \o <<":">>
    \o (IF query_value = NoneStr THEN <<"null">> ELSE Quote(query_value))
    \o <<"}", NL>>

render_template_string(entries) ==
    <<"<html><body>">>
    \o Concat([i \in DOMAIN entries |->
                 <<"<div class=log-entry>">> \o entries[i] \o <<"</div>">>])
    \o <<"</body></html>">>

home_in(l, c, r, now) ==
    LET data == <<>>
    IN  main_log_request_in(l, c, ROOT, r.method, NoneStr, data, FALSE,
                            Response(200, "text/html", data), now)

home(r, now) == home_in(logs, cli, r, now)

query_in(l, c, r, now) ==
    LET query_value == args_get(r.query, "q")
    IN  main_log_request_in(l, c, QPATH, r.method, query_value, NoneStr, FALSE,
                            Response(200, "application/json", jsonify_q(query_value)),
                            now)

query(r, now) == query_in(logs, cli, r, now)

\* a log view that records itself in the web-visible log
get_logs_recorded(r, now) ==
    main_log_request(LOGS, r.method, NoneStr, NoneStr, FALSE,
                     Response(200, "text/html", render_template_string(logs)), now)

get_logs_in(l, c, r, now) ==
    main_log_request_in(l, c, LOGS, r.method, NoneStr, NoneStr, TRUE,
                        Response(200, "text/html", render_template_string(l)), now)

get_logs(r, now) == get_logs_in(logs, cli, r, now)

other_routes_in(l, c, r, now) ==
    LET subpath == Tail(r.path)
        route_name == <<"/">> \o subpath
    IN  IF ~CanDecode(r.body)
        THEN \* request.data.decode('utf-8') raises: Flask answers 500
             Result(l, c, Response(500, "text/html", <<"Internal Server Error">>),
                    Idle, NoneStr)
        ELSE main_log_request_in(l, c, route_name, r.method, subpath, r.body, FALSE,
                                 Response(200, "text/html", subpath), now)

other_routes(r, now) == other_routes_in(logs, cli, r, now)

MainInbound == IF traffic = "core" THEN CoreMainRequests ELSE MainRequests

main_accepting == variant = "main" /\ Len(hist) < MaxRequests

\* @app.route("/", methods=["GET", "POST"])
main_home ==
    \E r \in MainInbound :
        /\ main_accepting
        /\ r.path = ROOT
        /\ Apply(r, home(r, clock), home_in(twin.logs, <<>>, r, clock))

\* @app.route("/q", methods=["GET"])
main_query ==
    \E r \in MainInbound :
        /\ main_accepting
        /\ r.path = QPATH /\ r.method = "GET"
        /\ Apply(r, query(r, clock), query_in(twin.logs, <<>>, r, clock))

\* @app.route("/logs", methods=["GET"])
main_get_logs ==
    \E r \in MainInbound :
        /\ main_accepting
        /\ r.path = LOGS /\ r.method = "GET"
        /\ Apply(r, get_logs(r, clock), get_logs_in(twin.logs, <<>>, r, clock))

\* @app.route("/<path:subpath>", methods=["GET", "POST"])
main_other_routes ==
    \E r \in MainInbound :
        /\ main_accepting
        /\ r.path \notin {ROOT, QPATH, LOGS}
        /\ Apply(r, other_routes(r, clock), other_routes_in(twin.logs, <<>>, r, clock))

Next ==
    \/ app_do_GET
    \/ app_do_POST
    \/ app_relay_return
    \/ target_silent
    \/ main_home
    \/ main_query
    \/ main_get_logs
    \/ main_other_routes
    \/ Tick

Spec == Init /\ [][Next]_vars

\* the handler thread runs: a call whose target answers or fails does return
SpecFair == Spec /\ WF_vars(app_relay_return)

\* src/app.py under relay traffic
InitRelay == InitOf({"app"}, "relay")
NextRelay == app_do_GET \/ app_do_POST \/ app_relay_return \/ target_silent \/ Tick
SpecRelay == InitRelay /\ [][NextRelay]_vars

\* src/app.py with a SIGINT arriving at any moment
InitShutdown == InitOf({"app"}, "shutdown")
NextShutdown ==
    \/ app_do_GET
    \/ app_do_POST
    \/ app_relay_return
    \/ target_silent
    \/ shutdown_signal
    \/ shutdown_complete
    \/ Tick
SpecShutdown == InitShutdown /\ [][NextShutdown]_vars

\* both programs under the core traffic, each run followed by its twin
InitCore == InitOf({"app", "main"}, "core")
SpecCore == InitCore /\ [][Next]_vars

\* ==================================================================== claims
WebEligible(r) == r.path \notin {LOGS, FAVICON}
IsLogView(h) == h.req.method = "GET" /\ h.req.path = LOGS /\ h.resp.status = 200
Last(q) == q[Len(q)]
Handles == Len(hist') = Len(hist) + 1       \* this step handles a request

\* the query mapping of a request takes the relay branch of the dispatch policy
RelayCase(r) ==
    LET j == query_json_of(parse_qs(r.query))
    IN  /\ r.path = ROOT
        /\ (Has(j, "q") \/ Has(j, "req"))
        /\ (Has(j, "p") \/ Has(j, "rep"))
        /\ ValTruthy(Get(j, "p", Get(j, "rep", StrVal(<<>>))))

\* C1: every request to a path other than /logs and /favicon.ico adds exactly
\* one entry to the web-visible log, so the log is as long as the number of
\* such requests.
C1_OneEntryPerRequest ==
    /\ \A i \in DOMAIN hist : WebEligible(hist[i].req) => hist[i].webN = 1
    /\ Len(logs) = Cardinality({i \in DOMAIN hist : WebEligible(hist[i].req)})

\* C2: a request to /favicon.ico or /logs adds nothing to the web-visible log
\* and exactly one line to the process-level log sink.
C2_DiagnosticPathsCliOnly ==
    \A i \in DOMAIN hist :
        hist[i].req.path \in {LOGS, FAVICON} => hist[i].webN = 0 /\ hist[i].cliN = 1

\* the web entries of the requests handled before the k-th, oldest first
RECURSIVE EntriesBefore(_)
EntriesBefore(k) ==
    IF k <= 1 THEN <<>>
    ELSE EntriesBefore(k - 1)
         \o (IF hist[k - 1].webN = 1
             THEN <<IF variant = "app" THEN app_log_entry_web(hist[k - 1].entry)
                    ELSE main_log_entry_web(hist[k - 1].entry)>>
             ELSE <<>>)

Html(entries) ==
    IF variant = "app" THEN generate_logs_html(entries) ELSE render_template_string(entries)

\* C3: every rendering of the log view lists the entries of the requests
\* handled before it in the order the requests were handled: the entry of an
\* earlier request precedes the entry of a later one.
C3_RenderInsertionOrder ==
    \A k \in DOMAIN hist :
        IsLogView(hist[k]) => hist[k].resp.body = Html(EntriesBefore(k))

C3_Witness ==
    /\ Len(hist) = 3
    /\ IsLogView(hist[3])
    /\ hist[1].webN = 1 /\ hist[2].webN = 1
    /\ logs[1] # logs[2]

\* C4: a GET of the log view leaves the web-visible log unchanged, and a log
\* view that directly follows another renders the same document.
C4_LogViewPureRead ==
    [][(Handles /\ IsLogView(Last(hist')))
         => /\ logs' = logs
            /\ (hist # <<>> /\ IsLogView(Last(hist)))
                 => Last(hist').resp.body = Last(hist).resp.body]_vars

C4_Witness ==
    /\ Len(hist) = 3
    /\ logs # <<>>
    /\ IsLogView(hist[2]) /\ IsLogView(hist[3])

\* the body a relay may return: the target's text or the failure line
IsRelayText(body) ==
    \/ \E o \in RelayOutcomes : o.ok /\ body = o.text
    \/ startswith(body, "Failed to request ")

\* C5: every root-path request whose query mapping holds a query alias and a
\* target alias with a non-empty target, the target being one string or a
\* list, is answered 200 text/plain with the relay's string.
C5_RelayNeverFailsUpward ==
    \A i \in DOMAIN hist :
        (variant = "app" /\ RelayCase(hist[i].req) /\ hist[i].resp # Pending)
            => /\ hist[i].resp.status = 200
               /\ hist[i].resp.ctype = "text/plain"
               /\ IsRelayText(hist[i].resp.body)

\* C6: a root-path request outside the relay branch is answered 200, with the
\* compact JSON of its query mapping as application/json when the mapping is
\* non-empty, with an empty text/plain body when it has no parameters.
C6_DefaultRootResponse ==
    \A i \in DOMAIN hist :
        LET r == hist[i].req
            j == query_json_of(parse_qs(r.query))
        IN  (r.path = ROOT /\ ~RelayCase(r))
                => /\ hist[i].resp.status = 200
                   /\ JsonTruthy(j) => /\ hist[i].resp.body = json_dumps(j)
                                       /\ hist[i].resp.ctype = "application/json"
                   /\ r.query = <<>> => /\ hist[i].resp.body = <<>>
                                        /\ hist[i].resp.ctype = "text/plain"

\* the logged line carries qv as its query_value / b as its body
HasQueryValue(line, qv) ==
    \E i \in 1..(Len(line) - Len(qv)) :
        line[i] \in {" - ", ": "} /\ SubSeq(line, i + 1, i + Len(qv)) = qv
HasBody(line, b) ==
    b = <<>> \/ (Len(line) > Len(b)
                 /\ SubSeq(line, Len(line) - Len(b), Len(line)) = <<NL>> \o b)

\* C7: a request to any other path is answered with the path without its
\* leading slash, and its log entry carries that segment as query_value and
\* the request body as body.
C7_OtherPathEcho ==
    \A i \in DOMAIN hist :
        LET r == hist[i].req
        IN  r.path \notin {ROOT, LOGS, FAVICON}
                => /\ hist[i].resp.body = lstrip(r.path)
                   /\ hist[i].entry # NoneStr
                   /\ HasQueryValue(hist[i].entry, lstrip(r.path))
                   /\ HasBody(hist[i].entry, r.body)

\* C8: every request to /favicon.ico is answered 404.
C8_FaviconAlways404 ==
    \A i \in DOMAIN hist : hist[i].req.path = FAVICON => hist[i].resp.status = 404

\* C9: the web-visible log is append-only: a step leaves it as it is or adds
\* one entry at its end.
C9_AppendOnly ==
    [][/\ Len(logs') \in {Len(logs), Len(logs) + 1}
       /\ SubSeq(logs', 1, Len(logs)) = logs]_vars

C9_Witness == Len(logs) = 3 /\ logs[1] # logs[2] /\ logs[2] # logs[3]

\* C10: while one request is suspended in the relay's outbound call, the
\* listener can still accept and handle the next request.
C10_RelayDoesNotBlock ==
    (variant = "app" /\ relay.busy /\ Len(hist) < MaxRequests)
        => ENABLED (app_do_GET \/ app_do_POST)


\* C11: the relay's outbound call is bounded: a call in progress eventually
\* returns, also when the target accepted the connection and never answers,
\* and the request is then answered.
C11_RelayReturns ==
    relay.busy ~> (~relay.busy /\ hist # <<>> /\ Last(hist).resp.status = 200)

C13_MalformedStillServed ==
    \A i \in DOMAIN hist :
        ~CanDecode(hist[i].req.body)
            => /\ hist[i].entry # NoneStr
               /\ hist[i].cliN = 1
               /\ WebEligible(hist[i].req) => hist[i].webN = 1
               /\ hist[i].resp.status = 200

\* C14: a request issues exactly one outbound POST when it is a root request
\* with a query alias, a target alias and a non-empty target, and none
\* otherwise.
C14_OnePostPerRelay ==
    \A i \in DOMAIN hist :
        variant = "app" => hist[i].posts = (IF RelayCase(hist[i].req) THEN 1 ELSE 0)

\* the place in the web-visible log of the entry of the i-th request
EntryIndex(i) == Len(EntriesBefore(i + 1))

\* C15: once the outbound call of a request has started, whether it is in
\* progress, has failed or has returned, the request's entry is in the log,
\* at its place.
C15_LoggedBeforeRelay ==
    \A i \in DOMAIN hist :
        hist[i].posts = 1
            => /\ hist[i].webN = 1
               /\ EntryIndex(i) \in DOMAIN logs
               /\ logs[EntryIndex(i)] = app_log_entry_web(hist[i].entry)

C15_Witness ==
    /\ Len(hist) = 2
    /\ hist[1].posts = 1 /\ startswith(hist[1].resp.body, "Failed to request ")
    /\ relay.busy /\ hist[2].resp = Pending
    /\ Len(logs) = 2


\* the handler of this request raised, or answered with an error status
Faulted(h) == h.resp = NoResponse \/ h.resp.status = 500

\* a request that decodes and whose relay target, if any, is one string
WellFormed(r) ==
    /\ CanDecode(r.body)
    /\ RelayCase(r) => ~Get(query_json_of(parse_qs(r.query)), "p",
                            Get(query_json_of(parse_qs(r.query)), "rep", StrVal(<<>>))).isList

QuietRun ==
    IF verbose THEN twin
    ELSE [logs |-> logs, resps |-> [i \in DOMAIN hist |-> hist[i].resp]]
VerboseRun ==
    IF verbose THEN [logs |-> logs, resps |-> [i \in DOMAIN hist |-> hist[i].resp]]
    ELSE twin

\* a text without the client origin, "ip:port/", that follows the method of
\* an entry
RECURSIVE StripOrigin(_)
StripOrigin(s) ==
    IF s = <<>> THEN <<>>
    ELSE IF /\ Len(s) >= 5
            /\ s[1] = ") "
            /\ SubSeq(s, 2, 5) = <<ClientIp, ":", ServerPort, "/">>
         THEN <<s[1]>> \o StripOrigin(SubSeq(s, 6, Len(s)))
         ELSE <<Head(s)>> \o StripOrigin(Tail(s))

\* the two runs agree on the log's length and, entry by entry, on everything
\* but the client origin
SameLogButOrigin ==
    /\ Len(QuietRun.logs) = Len(VerboseRun.logs)
    /\ \A k \in DOMAIN QuietRun.logs :
          QuietRun.logs[k] = StripOrigin(VerboseRun.logs[k])

\* C17: the same requests with verbose off and with verbose on give logs of
\* the same length, entries that differ only in the client origin, and the
\* same response to every request.
C17_VerboseFormattingOnly ==
    /\ SameLogButOrigin
    /\ \A i \in DOMAIN hist : QuietRun.resps[i] = VerboseRun.resps[i]

\* C17 amended: as C17, but the body of the log view lists the entries of its
\* own run, so it differs as the entries do; its status and content type are
\* the same, and every other response is identical.
C17_VerboseFormattingOnlyButLogView ==
    /\ SameLogButOrigin
    /\ \A i \in DOMAIN hist :
          IF IsLogView(hist[i])
          THEN /\ QuietRun.resps[i].status = VerboseRun.resps[i].status
               /\ QuietRun.resps[i].ctype = VerboseRun.resps[i].ctype
               /\ LET n == Len(EntriesBefore(i))
                  IN  /\ QuietRun.resps[i].body = Html(SubSeq(QuietRun.logs, 1, n))
                      /\ VerboseRun.resps[i].body = Html(SubSeq(VerboseRun.logs, 1, n))
          ELSE QuietRun.resps[i] = VerboseRun.resps[i]

C17_Witness ==
    /\ variant = "app"
    /\ Len(hist) = 3
    /\ QuietRun.logs # <<>> /\ QuietRun.logs[1] # VerboseRun.logs[1]
    /\ IsLogView(hist[3]) /\ QuietRun.resps[3].body # VerboseRun.resps[3].body
    /\ hist[2].resp.ctype = "application/json"


\* the value a query mapping holds under the first of two keys it has
ValueOf(r, first, second) ==
    LET items == query_json_of(parse_qs(r.query)).items
        at(k) == items[CHOOSE i \in DOMAIN items : items[i].k = k].val
    IN  IF \E i \in DOMAIN items : items[i].k = first THEN at(first) ELSE at(second)

\* the target a relay request names
TargetOf(r) == ValueOf(r, "p", "rep").vals[1]

\* C18: the URL called is the target, with http:// in front when it names no
\* scheme; the connection is HTTPS exactly when the URL's scheme is https; the
\* outbound path is the URL's path, or / when it has none, then ? and the
\* URL's query when it has one.
C18_TargetNormalization ==
    relay.busy
      => LET t == TargetOf(Last(hist).req)
             rest == Tail(relay.url)
             q == FirstIndex(rest, {"?"})
             h == FirstIndex(rest, {"/", "?"})
         IN  /\ relay.url = (IF Head(t) \in {"http://", "https://"} THEN t
                             ELSE <<"http://">> \o t)
             /\ relay.conn = "HTTPS" <=> Head(relay.url) = "https://"
             /\ relay.host = SubSeq(rest, 1, h - 1)
             /\ relay.path = (IF h < q THEN SubSeq(rest, h, q - 1) ELSE <<"/">>)
                             \o (IF q < Len(rest) THEN SubSeq(rest, q, Len(rest))
                                 ELSE <<>>)
             /\ t = <<"https://", "example.com", "/", "api", "?", "x=1">>
                  => /\ relay.conn = "HTTPS"
                     /\ relay.host = <<"example.com">>
                     /\ relay.path = <<"/", "api", "?", "x=1">>
             /\ t = <<"example.com">>
                  => /\ relay.url = <<"http://", "example.com">>
                     /\ relay.conn = "HTTP"
                     /\ relay.path = <<"/">>

C18_Witness ==
    /\ relay.busy
    /\ TargetOf(Last(hist).req) = <<"https://", "example.com", "/", "api", "?", "x=1">>
    /\ Len(hist) = 2 /\ hist[1].posts = 1
    /\ TargetOf(hist[1].req) = <<"b.example", "?", "y=2">>

\* C19: the relayed query is the value of q when q is present and of req
\* otherwise; the target is the value of p when p is present and of rep
\* otherwise; the two roles choose independently.
C19_FirstAliasWins ==
    relay.busy
      => LET r == Last(hist).req
         IN  /\ relay.payload = relay_payload(ValueOf(r, "q", "req"))
             /\ relay.url = normalize_target(ValueOf(r, "p", "rep").vals[1])
             /\ r.query = QBoth
                  => /\ relay.payload = <<"{", "\"", "query", "\"", ":",
                                          "\"", "first", "\"", "}">>
                     /\ relay.host = <<"a.example">>
             /\ r.query = QMixed
                  => /\ relay.payload = <<"{", "\"", "query", "\"", ":",
                                          "\"", "second", "\"", "}">>
                     /\ relay.host = <<"a.example">>

C19_Witness ==
    /\ relay.busy /\ Last(hist).req.query = QBoth
    /\ Len(hist) = 2 /\ hist[1].req.query = QMixed /\ hist[1].posts = 1

\* the entry a request gets: a function of the request, the verbosity and the
\* time of arrival
EntryOf(r, v, now) ==
    app_log_entry_web(
        app_log_entry(r.path, r.method,
                      json_dumps(query_json_of(parse_qs(r.query))),
                      IF r.method = "GET" THEN NoneStr ELSE r.body,
                      app_client_address(v), v, now))

\* C20: the handler of a relay request appends one entry, fixed by the request
\* and the verbosity, and the return of the relay, whatever its result, leaves
\* the log store and the console log as they were.
C20_RelayOutcomeNotLogged ==
    [][/\ (Handles /\ Last(hist').posts = 1)
            => logs' = Append(logs, EntryOf(Last(hist').req, verbose, clock))
       /\ (relay.busy /\ ~relay'.busy) => (logs' = logs /\ cli' = cli)]_vars

\* the same request relayed twice, with two different results, and the same
\* entry for both
C20_Witness ==
    /\ Len(hist) = 2
    /\ hist[1].req = hist[2].req
    /\ hist[1].posts = 1 /\ hist[2].posts = 1
    /\ hist[1].resp.status = 200 /\ hist[2].resp.status = 200
    /\ hist[1].resp.body # hist[2].resp.body
    /\ Len(logs) = 2 /\ logs[1] = logs[2]

====
